---- MODULE Spec2Model ----
(***************************************************************************)
(* Model of the MQTT session core of the Streamlit MQTT client:            *)
(*   src/pages/1_MQTT_Client.py   class MqttClient (the link), the         *)
(*                                session-state coordinator, the UI        *)
(*                                handlers, the periodic publisher thread  *)
(*   src/pages/2_Parsed_JSON_Messages.py   parsed-messages page            *)
(* Three kinds of execution context interleave: the UI script thread (one  *)
(* handler at a time), one paho network thread per link whose loop was     *)
(* started, and the publisher threads.                                     *)
(***************************************************************************)
EXTENDS Integers, Sequences, FiniteSets, TLC

(***************************************************************************)
(* JSON values, as json.loads returns them.  Every value is a record of    *)
(* one shape: t is the type, v the number of a numeric scalar, s the text   *)
(* of a string scalar, c the children.                                     *)
(* A child is [k |-> key, x |-> value]; k is "" for the elements of a list.*)
(* A Python dict is the sequence of its entries in insertion order, with   *)
(* no key twice.                                                           *)
(***************************************************************************)
Num(n) == [t |-> "num", v |-> n, s |-> "", c |-> <<>>]

Str(x) == [t |-> "str", v |-> 0, s |-> x, c |-> <<>>]

Null == [t |-> "null", v |-> 0, s |-> "", c |-> <<>>]

Obj(entries) == [t |-> "obj", v |-> 0, s |-> "", c |-> entries]

Arr(xs) == [t |-> "arr", v |-> 0, s |-> "",
            c |-> [i \in 1..Len(xs) |-> [k |-> "", x |-> xs[i]]]]

KV(key, value) == [k |-> key, x |-> value]

\* dict(items): a later item with a key already present replaces the value in
\* place, a new key is appended.
RECURSIVE DictPut(_, _, _)
DictPut(d, item, i) ==
    IF i > Len(d) THEN Append(d, item)
    ELSE IF d[i].k = item.k THEN [d EXCEPT ![i] = item]
    ELSE DictPut(d, item, i + 1)

RECURSIVE DictFrom(_, _, _)
DictFrom(items, i, acc) ==
    IF i > Len(items) THEN acc
    ELSE DictFrom(items, i + 1, DictPut(acc, items[i], 1))

DictOf(items) == DictFrom(items, 1, <<>>)

\* A dict compared as Python compares dicts: as a mapping, whatever the order.
MapOf(d) == [key \in {d[i].k : i \in 1..Len(d)} |->
                d[CHOOSE i \in 1..Len(d) : d[i].k = key].x ]

(***************************************************************************)
(* MqttClient._flatten_json                                                *)
(***************************************************************************)
RECURSIVE FlattenJson(_, _, _)
RECURSIVE FlattenDictLoop(_, _, _, _)
RECURSIVE FlattenListLoop(_, _, _, _)

\* A variant of the list loop that numbers the elements from 1.
RECURSIVE FlattenListLoopFrom1(_, _, _, _)
FlattenListLoopFrom1(v, new_key, sep, i) ==
    IF i > Len(v.c) THEN <<>>
    ELSE LET item == v.c[i].x
             key  == new_key \o sep \o ToString(i)
         IN  (IF item.t = "obj"
              THEN FlattenJson(item, key, sep)
              ELSE << KV(key, item) >>)
             \o FlattenListLoopFrom1(v, new_key, sep, i + 1)

\* for i, item in enumerate(v): (lines 97-101)
FlattenListLoop(v, new_key, sep, i) ==
    IF i > Len(v.c) THEN <<>>
    ELSE LET item == v.c[i].x
             key  == new_key \o sep \o ToString(i - 1)
         IN  (IF item.t = "obj"
              THEN FlattenJson(item, key, sep)
              ELSE << KV(key, item) >>)
             \o FlattenListLoop(v, new_key, sep, i + 1)

\* for k, v in json_obj.items(): (lines 92-103)
FlattenDictLoop(json_obj, parent_key, sep, i) ==
    IF i > Len(json_obj.c) THEN <<>>
    ELSE LET k       == json_obj.c[i].k
             v       == json_obj.c[i].x
             new_key == IF parent_key # "" THEN parent_key \o sep \o k ELSE k
         IN  (IF v.t = "obj" THEN FlattenJson(v, new_key, sep)
              ELSE IF v.t = "arr" THEN FlattenListLoop(v, new_key, sep, 1)
              ELSE << KV(new_key, v) >>)
             \o FlattenDictLoop(json_obj, parent_key, sep, i + 1)

FlattenJson(json_obj, parent_key, sep) ==
    IF json_obj.t = "obj"
    THEN DictOf(FlattenDictLoop(json_obj, parent_key, sep, 1))
    ELSE <<>>

(***************************************************************************)
(* Bounds of the model.                                                    *)
(***************************************************************************)
\* MqttClient objects constructed in one run (one per connect request)
MaxLinks == 2

\* publisher threads alive at once
MaxTasks == 2

\* messages the broker delivers in one run, over all links
MaxMsgs == 2

Links == 1..MaxLinks

Tasks == 1..MaxTasks

Topics == {"test/message", "sensor"}

\* the topic the publish form and the subscribe form start with (lines 411, 494)
FormTopic == "test/message"

\* st.session_state.mqtt_client = None
None == 0

(***************************************************************************)
(* Payloads on the wire: bytes that are valid UTF-8 text or not.           *)
(***************************************************************************)
Bytes(text) == [utf8 |-> TRUE, text |-> text]

BadBytes(raw) == [utf8 |-> FALSE, text |-> raw]

PayloadHello == Bytes("hello")

PayloadObject == Bytes("{\"a\": {\"b\": 1}}")

PayloadSerial == Bytes("{\"Serial No.\": 7}")

PayloadBad == BadBytes("\\xff")

\* a JSON object with a key that is the name of a field of the parsed record
PayloadTopic == Bytes("{\"Topic\": \"x\"}")

Payloads == {PayloadHello, PayloadObject, PayloadSerial, PayloadTopic, PayloadBad}

\* msg.payload.decode('utf-8'), with the marker of line 52 on UnicodeDecodeError
DecodePayload(bytes) ==
    IF bytes.utf8 THEN bytes.text
    ELSE "Non-UTF-8 payload (raw: b'" \o bytes.text \o "')"

\* json.loads on the texts of the model: the value, or JSONDecodeError
JsonLoads(text) ==
    CASE text = "{\"a\": {\"b\": 1}}" ->
            [ok |-> TRUE, value |-> Obj(<< KV("a", Obj(<< KV("b", Num(1)) >>)) >>)]
      [] text = "{\"Serial No.\": 7}" ->
            [ok |-> TRUE, value |-> Obj(<< KV("Serial No.", Num(7)) >>)]
      [] text = "{\"Topic\": \"x\"}" ->
            [ok |-> TRUE, value |-> Obj(<< KV("Topic", Str("x")) >>)]
      [] text = "5" ->
            [ok |-> TRUE, value |-> Num(5)]
      [] OTHER ->
            [ok |-> FALSE, value |-> Null]

(***************************************************************************)
(* State.                                                                  *)
(***************************************************************************)
VARIABLES
    \* the MqttClient objects, by number of construction
    nLinks,             \* how many were constructed
    is_connected,       \* self.is_connected
    loop,               \* the paho network thread: "none", "running", "stopped"
    session,            \* the broker session: "none", "pending", "open",
                        \*   "refused", "closed", "dropped"
    messages_received,  \* self.messages_received
    json_messages,      \* self.json_messages
    callback,           \* _on_message in progress on the network thread:
                        \*   the message between its two appends, or Idle
    \* st.session_state
    mqtt_client,
    is_mqtt_connected,
    subscribed_topics,
    publish_thread_running,
    stop_publish_event,
    messages_df,
    json_messages_df,
    last_message_count,
    last_json_message_count,
    auto_publish_messages,
    \* the UI script thread: the handler in progress and its locals
    ui,
    \* the publisher threads
    task,
    \* the broker side
    brokerSubs,         \* the topic filters the broker holds for each session
    wire,               \* the calls the last step made on a paho client
    \* a call of _flatten_json on its own: [pc, json_obj, result]
    flatten,
    \* what the last step gave back to the user or the caller: the text of the
    \* st.warning it displayed and the value MqttClient.publish returned
    report,
    \* st.session_state of the main script (src/MQTTClient.py)
    main,
    \* the parsed-messages page: the rows of the table json_messages of the
    \* database, and the "Auto-save to Database" checkbox
    json_db,
    auto_save_to_db

linkVars == << nLinks, is_connected, loop, session, messages_received,
               json_messages, callback >>

logVars == << messages_received, json_messages, callback >>

coordVars == << mqtt_client, is_mqtt_connected, subscribed_topics,
                publish_thread_running, stop_publish_event, messages_df,
                json_messages_df, last_message_count, last_json_message_count,
                auto_publish_messages >>

dfVars == << messages_df, json_messages_df, last_message_count,
             last_json_message_count >>

pageVars == << json_db, auto_save_to_db >>

vars == << linkVars, coordVars, ui, task, brokerSubs, wire, flatten, report, main,
          pageVars >>

Idle == [busy |-> FALSE, topic |-> "", payload |-> "", timestamp |-> 0]

\* the UI script thread, as the maker of a call (the publisher threads are 1, 2, ..)
Ui == 0

NoArg == [Topic |-> "", Payload |-> "", QoS |-> 0, Retain |-> FALSE]

Call(op, l, by, arg) == [op |-> op, link |-> l, by |-> by, arg |-> arg]

NoCall == {}

UiIdle == [pc |-> "idle", link |-> None, rawLen |-> 0, jsonLen |-> 0]

\* A publisher thread: its position in periodic_publisher_task, its arguments
\* and the index of its for loop.
NoTask == [pc |-> "none", link |-> None, messages |-> <<>>, i |-> 0]

\* the two entries of lines 180-183
DefaultMessages ==
    << [Topic |-> "test/message", Payload |-> "Message 1", QoS |-> 0, Retain |-> FALSE],
       [Topic |-> "test/message", Payload |-> "Message 2", QoS |-> 1, Retain |-> TRUE] >>

NoFlatten == [pc |-> "none", json_obj |-> Null, result |-> << >>]

\* a step that displayed no warning or error and returned from no publish
NoReport == [shown |-> "", returned |-> ""]

Warned(text) == [NoReport EXCEPT !.shown = text]

\* the main script before its first run (src/MQTTClient.py, lines 8-21), and
\* whether the callback of its last client.loop raised
NoMain == [mqtt_client |-> FALSE, connected |-> FALSE, messages |-> << >>,
           raised |-> FALSE]

\* pd.DataFrame(columns=[...]) and pd.DataFrame(): a frame without rows
EmptyFrame == << >>

Init ==
    /\ nLinks = 0
    /\ is_connected = [l \in Links |-> FALSE]
    /\ loop = [l \in Links |-> "none"]
    /\ session = [l \in Links |-> "none"]
    /\ messages_received = [l \in Links |-> << >>]
    /\ json_messages = [l \in Links |-> << >>]
    /\ callback = [l \in Links |-> Idle]
    /\ mqtt_client = None
    /\ is_mqtt_connected = FALSE
    /\ subscribed_topics = {}
    /\ publish_thread_running = FALSE
    /\ stop_publish_event = FALSE
    /\ messages_df = EmptyFrame
    /\ json_messages_df = EmptyFrame
    /\ last_message_count = 0
    /\ last_json_message_count = 0
    /\ auto_publish_messages = DefaultMessages
    /\ ui = UiIdle
    /\ task = [t \in Tasks |-> NoTask]
    /\ brokerSubs = [l \in Links |-> {}]
    /\ wire = NoCall
    /\ report = NoReport
    /\ main = NoMain
    /\ json_db = << >>
    /\ auto_save_to_db = TRUE
    /\ flatten = NoFlatten

(***************************************************************************)
(* MqttClient: connect, disconnect and the callbacks of the network thread.*)
(***************************************************************************)
LinkState == [is_connected |-> is_connected, loop |-> loop, session |-> session,
              brokerSubs |-> brokerSubs]

TotalReceived == LET RECURSIVE Sum(_)
                     Sum(l) == IF l = 0 THEN 0
                               ELSE Len(messages_received[l]) + Sum(l - 1)
                 IN  Sum(MaxLinks)

\* disconnect without the test of is_connected
DisconnectAlways(st, l) ==
    [st EXCEPT !.loop[l] = "stopped",
               !.session[l] = "closed",
               !.is_connected[l] = FALSE,
               !.brokerSubs[l] = {}]

\* MqttClient.disconnect (lines 117-123)
Disconnect(st, l) ==
    IF st.is_connected[l]
    THEN [st EXCEPT !.loop[l] = "stopped",
                    !.session[l] = "closed",
                    !.is_connected[l] = FALSE,
                    !.brokerSubs[l] = {}]
    ELSE st

DisconnectCalls(st, l, by) ==
    IF st.is_connected[l] THEN {Call("disconnect", l, by, NoArg)} ELSE {}

\* loop_stop() joins the network thread: it returns once the callback the
\* thread is in has returned.
CanDisconnect(l) == is_connected[l] => ~callback[l].busy

\* MqttClient.connect (lines 106-115): client.connect raises, or the CONNECT
\* packet is sent and the network thread started
Connect(st, l, outcome) ==
    IF outcome = "raise"
    THEN [st EXCEPT !.is_connected[l] = FALSE]
    ELSE [st EXCEPT !.loop[l] = "running", !.session[l] = "pending"]

\* _on_connect that sets the flag whatever the result code
OnConnectAnyRc(l, rc) ==
    /\ loop[l] = "running"
    /\ session[l] = "pending"
    /\ is_connected' = [is_connected EXCEPT ![l] = TRUE]
    /\ session' = [session EXCEPT ![l] = IF rc = 0 THEN "open" ELSE "refused"]
    /\ wire' = NoCall
    /\ report' = NoReport
    /\ UNCHANGED << pageVars, flatten, main, nLinks, loop, logVars, coordVars, ui, task, brokerSubs >>

\* MqttClient._on_connect (lines 35-44), on the network thread
OnConnect(l, rc) ==
    /\ loop[l] = "running"
    /\ session[l] = "pending"
    /\ is_connected' = [is_connected EXCEPT ![l] = (rc = 0)]
    /\ session' = [session EXCEPT ![l] = IF rc = 0 THEN "open" ELSE "refused"]
    /\ wire' = NoCall
    /\ report' = NoReport
    /\ UNCHANGED << pageVars, flatten, main, nLinks, loop, logVars, coordVars, ui, task, brokerSubs >>

\* The broker drops an open session. __init__ (lines 25-27) registers
\* on_connect, on_message and on_publish: no callback runs on a drop.
BrokerDrop(l) ==
    /\ loop[l] = "running"
    /\ session[l] = "open"
    /\ session' = [session EXCEPT ![l] = "dropped"]
    /\ brokerSubs' = [brokerSubs EXCEPT ![l] = {}]
    /\ wire' = NoCall
    /\ report' = NoReport
    /\ UNCHANGED << pageVars, flatten, main, nLinks, is_connected, loop, logVars, coordVars, ui, task >>

\* _on_message that takes the serial number from the other log
OnMessageRawSerialOfJson(l, topic, bytes) ==
    /\ loop[l] = "running"
    /\ session[l] = "open"
    /\ topic \in brokerSubs[l]
    /\ ~callback[l].busy
    /\ TotalReceived < MaxMsgs
    /\ LET timestamp == TotalReceived + 1
           payload   == DecodePayload(bytes)
       IN  /\ messages_received' = [messages_received EXCEPT ![l] =
                 Append(@, [Serial |-> Len(json_messages[l]) + 1, Timestamp |-> timestamp,
                            Topic |-> topic, Payload |-> payload])]
           /\ callback' = [callback EXCEPT ![l] =
                 [busy |-> TRUE, topic |-> topic, payload |-> payload,
                  timestamp |-> timestamp]]
    /\ wire' = NoCall
    /\ report' = NoReport
    /\ UNCHANGED << pageVars, flatten, main, nLinks, is_connected, loop, session, json_messages, coordVars,
                    ui, task, brokerSubs >>

\* MqttClient._on_message, lines 48-59: decode the payload, append to the raw log
OnMessageRaw(l, topic, bytes) ==
    /\ loop[l] = "running"
    /\ session[l] = "open"
    /\ topic \in brokerSubs[l]
    /\ ~callback[l].busy
    /\ TotalReceived < MaxMsgs
    /\ LET timestamp == TotalReceived + 1
           payload   == DecodePayload(bytes)
       IN  /\ messages_received' = [messages_received EXCEPT ![l] =
                 Append(@, [Serial |-> Len(@) + 1, Timestamp |-> timestamp,
                            Topic |-> topic, Payload |-> payload])]
           /\ callback' = [callback EXCEPT ![l] =
                 [busy |-> TRUE, topic |-> topic, payload |-> payload,
                  timestamp |-> timestamp]]
    /\ wire' = NoCall
    /\ report' = NoReport
    /\ UNCHANGED << pageVars, flatten, main, nLinks, is_connected, loop, session, json_messages, coordVars,
                    ui, task, brokerSubs >>

\* the record of lines 66-72: the four fields, then the flattened pairs
JsonRecord(serial, timestamp, topic, json_data) ==
    DictOf(<< KV("Serial No.", Num(serial)),
              KV("Timestamp", Num(timestamp)),
              KV("Topic", Str(topic)),
              KV("JSON Data", json_data) >>
           \o FlattenJson(json_data, "", "_"))

\* the second half of _on_message that appends a record for every payload
OnMessageJsonAlways(l) ==
    /\ callback[l].busy
    /\ LET r == JsonLoads(callback[l].payload)
       IN  json_messages' = [json_messages EXCEPT ![l] =
                    Append(@, JsonRecord(Len(@) + 1, callback[l].timestamp,
                                         callback[l].topic, r.value))]
    /\ callback' = [callback EXCEPT ![l] = Idle]
    /\ wire' = NoCall
    /\ report' = NoReport
    /\ UNCHANGED << pageVars, flatten, main, nLinks, is_connected, loop, session, messages_received,
                    coordVars, ui, task, brokerSubs >>

\* MqttClient._on_message, lines 61-75: parse, flatten, append to the parsed log
OnMessageJson(l) ==
    /\ callback[l].busy
    /\ LET r == JsonLoads(callback[l].payload)
       IN  json_messages' = [json_messages EXCEPT ![l] =
                IF r.ok
                THEN Append(@, JsonRecord(Len(@) + 1, callback[l].timestamp,
                                          callback[l].topic, r.value))
                ELSE @]
    /\ callback' = [callback EXCEPT ![l] = Idle]
    /\ wire' = NoCall
    /\ report' = NoReport
    /\ UNCHANGED << pageVars, flatten, main, nLinks, is_connected, loop, session, messages_received,
                    coordVars, ui, task, brokerSubs >>

(***************************************************************************)
(* The UI handlers, on the script thread: one at a time, a handler that    *)
(* sleeps is two steps.                                                    *)
(***************************************************************************)
\* connect_mqtt_ui, lines 208-218 up to the sleep of connect()
ConnectMqttUi(outcome) ==
    /\ ui.pc = "idle"
    /\ nLinks < MaxLinks
    /\ LET old      == mqtt_client
           new      == nLinks + 1
           teardown == old # None /\ is_connected[old]
           st1      == IF teardown THEN Disconnect(LinkState, old) ELSE LinkState
           st2      == Connect(st1, new, outcome)
       IN  /\ old # None => CanDisconnect(old)
           /\ is_connected' = st2.is_connected
           /\ loop' = st2.loop
           /\ session' = st2.session
           /\ brokerSubs' = st2.brokerSubs
           /\ nLinks' = new
           /\ mqtt_client' = new
           /\ wire' = (IF old # None THEN DisconnectCalls(LinkState, old, Ui) ELSE {})
                      \cup {Call("connect", new, Ui, NoArg)}
    /\ report' = NoReport
    /\ ui' = [UiIdle EXCEPT !.pc = "connect_wait"]
    /\ UNCHANGED << pageVars, flatten, main, logVars, is_mqtt_connected, subscribed_topics,
                    publish_thread_running, stop_publish_event, dfVars,
                    auto_publish_messages, task >>

\* connect_mqtt_ui, lines 219-221, after connect() returned
ConnectMqttUiReturn ==
    /\ ui.pc = "connect_wait"
    /\ is_mqtt_connected' = is_connected[mqtt_client]
    /\ ui' = UiIdle
    /\ wire' = NoCall
    /\ report' = NoReport
    /\ UNCHANGED << pageVars, flatten, main, linkVars, mqtt_client, subscribed_topics, publish_thread_running,
                    stop_publish_event, dfVars, auto_publish_messages, task,
                    brokerSubs >>

\* disconnect_mqtt_ui that leaves the two frames as they are
DisconnectTailKeepingFrames ==
    /\ publish_thread_running' = FALSE
    /\ stop_publish_event' = FALSE
    /\ UNCHANGED dfVars

\* disconnect_mqtt_ui, lines 232-237
DisconnectTail ==
    /\ publish_thread_running' = FALSE
    /\ stop_publish_event' = FALSE
    /\ messages_df' = EmptyFrame
    /\ last_message_count' = 0
    /\ json_messages_df' = EmptyFrame
    /\ last_json_message_count' = 0

\* disconnect_mqtt_ui, lines 225-239; with a publisher marked running it
\* sets the stop event and sleeps (lines 230-231) before the rest
DisconnectMqttUi ==
    /\ ui.pc = "idle"
    /\ UNCHANGED << pageVars, flatten, main >>
    /\ report' = NoReport
    /\ IF mqtt_client = None
       THEN /\ wire' = NoCall
            /\ UNCHANGED << linkVars, coordVars, ui, task, brokerSubs >>
       ELSE LET st == Disconnect(LinkState, mqtt_client)
            IN  /\ CanDisconnect(mqtt_client)
                /\ is_connected' = st.is_connected
                /\ loop' = st.loop
                /\ session' = st.session
                /\ brokerSubs' = st.brokerSubs
                /\ wire' = DisconnectCalls(LinkState, mqtt_client, Ui)
                /\ is_mqtt_connected' = FALSE
                /\ subscribed_topics' = {}
                /\ IF publish_thread_running
                   THEN /\ stop_publish_event' = TRUE
                        /\ ui' = [UiIdle EXCEPT !.pc = "disconnect_wait"]
                        /\ UNCHANGED << publish_thread_running, dfVars >>
                   ELSE /\ DisconnectTail
                        /\ ui' = UiIdle
                /\ UNCHANGED << nLinks, logVars, mqtt_client, auto_publish_messages,
                                task >>

\* disconnect_mqtt_ui after the sleep of line 231 ("a small moment for the
\* thread to register the signal"): a publisher thread that was not asleep
\* has run on to its next sleep or to its end by then; one asleep in line 320
\* may sleep on, its interval being 0.1 s at least (line 456)
DisconnectMqttUiReturn ==
    /\ ui.pc = "disconnect_wait"
    /\ \A t \in Tasks : task[t].pc \in {"none", "sleep"}
    /\ DisconnectTail
    /\ ui' = UiIdle
    /\ wire' = NoCall
    /\ report' = NoReport
    /\ UNCHANGED << pageVars, flatten, main, linkVars, mqtt_client, is_mqtt_connected, subscribed_topics,
                    auto_publish_messages, task, brokerSubs >>

\* subscribe_topic_ui that adds the topic to the set whatever the state
SubscribeTopicUiUnguarded(topic) ==
    /\ ui.pc = "idle"
    /\ wire' = NoCall
    /\ report' = NoReport
    /\ subscribed_topics' = subscribed_topics \cup {topic}
    /\ UNCHANGED << pageVars, flatten, main, linkVars, mqtt_client, is_mqtt_connected,
                    publish_thread_running, stop_publish_event, dfVars,
                    auto_publish_messages, ui, task, brokerSubs >>

\* subscribe_topic_ui that takes a topic it finds in the set out of it
SubscribeTopicUiToggling(topic) ==
    /\ ui.pc = "idle"
    /\ wire' = NoCall
    /\ report' = NoReport
    /\ subscribed_topics' = IF mqtt_client # None /\ is_mqtt_connected
                            THEN IF topic \in subscribed_topics
                                 THEN subscribed_topics \ {topic}
                                 ELSE subscribed_topics \cup {topic}
                            ELSE subscribed_topics
    /\ UNCHANGED << pageVars, flatten, main, linkVars, mqtt_client, is_mqtt_connected,
                    publish_thread_running, stop_publish_event, dfVars,
                    auto_publish_messages, ui, task, brokerSubs >>

\* subscribe_topic_ui (lines 241-252) with MqttClient.subscribe (133-142)
SubscribeTopicUi(topic) ==
    /\ ui.pc = "idle"
    /\ IF mqtt_client # None /\ is_mqtt_connected
       THEN /\ IF is_connected[mqtt_client]
               THEN /\ wire' = {Call("subscribe", mqtt_client, Ui,
                                     [NoArg EXCEPT !.Topic = topic])}
                    /\ brokerSubs' = [brokerSubs EXCEPT ![mqtt_client] =
                            IF session[mqtt_client] = "open" THEN @ \cup {topic} ELSE @]
                    /\ report' = NoReport
               ELSE /\ wire' = NoCall
                    /\ report' = Warned("Not connected to MQTT broker. Cannot subscribe.")
                    /\ UNCHANGED brokerSubs
            /\ subscribed_topics' = subscribed_topics \cup {topic}
       ELSE /\ wire' = NoCall
            /\ report' = Warned("Not connected to MQTT broker. Connect first to subscribe.")
            /\ UNCHANGED << brokerSubs, subscribed_topics >>
    /\ UNCHANGED << pageVars, flatten, main, linkVars, mqtt_client, is_mqtt_connected, publish_thread_running,
                    stop_publish_event, dfVars, auto_publish_messages, ui, task >>

\* unsubscribe_topic_ui (lines 254-261) with MqttClient.unsubscribe (144-150)
UnsubscribeTopicUi(topic) ==
    /\ ui.pc = "idle"
    /\ IF mqtt_client # None /\ is_mqtt_connected
       THEN /\ IF is_connected[mqtt_client]
               THEN /\ wire' = {Call("unsubscribe", mqtt_client, Ui,
                                     [NoArg EXCEPT !.Topic = topic])}
                    /\ brokerSubs' = [brokerSubs EXCEPT ![mqtt_client] = @ \ {topic}]
                    /\ report' = NoReport
               ELSE /\ wire' = NoCall
                    /\ report' = Warned("Not connected to MQTT broker. Cannot unsubscribe.")
                    /\ UNCHANGED brokerSubs
            /\ subscribed_topics' = subscribed_topics \ {topic}
       ELSE /\ wire' = NoCall
            /\ report' = Warned("Not connected to MQTT broker.")
            /\ UNCHANGED << brokerSubs, subscribed_topics >>
    /\ UNCHANGED << pageVars, flatten, main, linkVars, mqtt_client, is_mqtt_connected, publish_thread_running,
                    stop_publish_event, dfVars, auto_publish_messages, ui, task >>

\* MqttClient.publish (lines 125-131): the calls it makes on the paho client
Publish(l, by, entry) ==
    IF is_connected[l] THEN {Call("publish", l, by, entry)} ELSE {}

\* MqttClient.publish: neither branch has a return statement, the call
\* evaluates to None on a connected link and on one that is not
PublishReturn(connected) == IF connected THEN "None" ELSE "None"

\* what MqttClient.publish gives back: the else branch displays a warning
PublishReport(l) ==
    IF is_connected[l]
    THEN [shown |-> "", returned |-> PublishReturn(TRUE)]
    ELSE [shown |-> "Not connected to MQTT broker. Cannot publish.",
          returned |-> PublishReturn(FALSE)]

\* the form of lines 411-416 with its default values
ManualEntry(topic) ==
    [Topic |-> topic, Payload |-> "manual", QoS |-> 0, Retain |-> FALSE]

\* publish_message_ui (lines 265-277)
PublishMessageUi(topic) ==
    /\ ui.pc = "idle"
    /\ wire' = IF mqtt_client # None /\ is_mqtt_connected
               THEN Publish(mqtt_client, Ui, ManualEntry(topic))
               ELSE NoCall
    /\ report' = IF mqtt_client # None /\ is_mqtt_connected
                 THEN PublishReport(mqtt_client)
                 ELSE Warned("Not connected to MQTT broker. Connect first to publish.")
    /\ UNCHANGED << pageVars, flatten, main, linkVars, coordVars, ui, task, brokerSubs >>

(***************************************************************************)
(* The periodic publisher.                                                 *)
(***************************************************************************)
Alive(t) == task[t].pc # "none"

FreeTask == CHOOSE t \in Tasks : ~Alive(t) /\ \A u \in Tasks : u < t => Alive(u)

\* start_periodic_publisher (lines 279-301)
StartPeriodicPublisher ==
    /\ ui.pc = "idle"
    /\ IF mqtt_client # None /\ is_mqtt_connected /\ ~publish_thread_running
       THEN /\ \E t \in Tasks : ~Alive(t)
            /\ stop_publish_event' = FALSE
            /\ task' = [task EXCEPT ![FreeTask] =
                           [NoTask EXCEPT !.pc = "while", !.link = mqtt_client,
                                          !.messages = auto_publish_messages]]
            /\ publish_thread_running' = TRUE
            /\ report' = NoReport
       ELSE /\ UNCHANGED << stop_publish_event, task, publish_thread_running >>
            /\ report' = IF mqtt_client # None /\ is_mqtt_connected
                         THEN Warned("Periodic publisher is already running.")
                         ELSE Warned("Not connected to MQTT broker. Cannot start publisher.")
    /\ wire' = NoCall
    /\ UNCHANGED << pageVars, flatten, main, linkVars, mqtt_client, is_mqtt_connected, subscribed_topics,
                    dfVars, auto_publish_messages, ui, brokerSubs >>

\* a stop that sets the event whether or not a publisher is marked running
StopPeriodicPublisherUnguarded ==
    /\ ui.pc = "idle"
    /\ stop_publish_event' = TRUE
    /\ publish_thread_running' = FALSE
    /\ wire' = NoCall
    /\ report' = NoReport
    /\ UNCHANGED << pageVars, flatten, main, linkVars, mqtt_client, is_mqtt_connected, subscribed_topics,
                    dfVars, auto_publish_messages, ui, task, brokerSubs >>

\* stop_periodic_publisher (lines 303-311)
StopPeriodicPublisher ==
    /\ ui.pc = "idle"
    /\ IF publish_thread_running
       THEN /\ stop_publish_event' = TRUE
            /\ publish_thread_running' = FALSE
       ELSE UNCHANGED << stop_publish_event, publish_thread_running >>
    /\ wire' = NoCall
    /\ report' = NoReport
    /\ UNCHANGED << pageVars, flatten, main, linkVars, mqtt_client, is_mqtt_connected, subscribed_topics,
                    dfVars, auto_publish_messages, ui, task, brokerSubs >>

TaskFrame == UNCHANGED << pageVars, flatten, main, linkVars, coordVars, ui, brokerSubs >>

\* periodic_publisher_task, line 315: while not stop_event.is_set()
TaskWhile(t) ==
    /\ task[t].pc = "while"
    /\ task' = [task EXCEPT ![t] =
                   IF stop_publish_event THEN NoTask
                   ELSE [@ EXCEPT !.pc = "for", !.i = 1]]
    /\ wire' = NoCall
    /\ report' = NoReport
    /\ TaskFrame

\* a for loop without the test of the stop event
TaskForIgnoringStop(t) ==
    /\ task[t].pc = "for"
    /\ task' = [task EXCEPT ![t] =
                   IF task[t].i > Len(task[t].messages)
                   THEN [@ EXCEPT !.pc = "while"]
                   ELSE [@ EXCEPT !.pc = "publish"]]
    /\ wire' = NoCall
    /\ report' = NoReport
    /\ TaskFrame

\* lines 316-318: the next entry of the list, and the test of the stop event
TaskFor(t) ==
    /\ task[t].pc = "for"
    /\ task' = [task EXCEPT ![t] =
                   IF task[t].i > Len(task[t].messages) \/ stop_publish_event
                   THEN [@ EXCEPT !.pc = "while"]
                   ELSE [@ EXCEPT !.pc = "publish"]]
    /\ wire' = NoCall
    /\ report' = NoReport
    /\ TaskFrame

\* self.client.publish (line 128) raises ValueError on a QoS that is not 0, 1
\* or 2 and on an empty topic
PahoRaises(entry) == entry.QoS \notin {0, 1, 2} \/ entry.Topic = ""

\* a thread that publishes through the link the session holds now
TaskPublishThroughCurrent(t) ==
    /\ task[t].pc = "publish"
    /\ LET entry  == task[t].messages[task[t].i]
           raises == is_connected[mqtt_client] /\ PahoRaises(entry)
       IN  /\ wire' = IF raises THEN NoCall ELSE Publish(mqtt_client, t, entry)
           /\ report' = IF raises THEN NoReport ELSE PublishReport(mqtt_client)
           /\ task' = IF raises THEN [task EXCEPT ![t] = NoTask]
                      ELSE [task EXCEPT ![t].pc = "sleep"]
    /\ TaskFrame

\* line 319: publish through the link the thread was started with; an
\* exception of the call is caught nowhere and ends the thread
TaskPublish(t) ==
    /\ task[t].pc = "publish"
    /\ LET entry  == task[t].messages[task[t].i]
           raises == is_connected[task[t].link] /\ PahoRaises(entry)
       IN  /\ wire' = IF raises THEN NoCall ELSE Publish(task[t].link, t, entry)
           /\ report' = IF raises THEN NoReport ELSE PublishReport(task[t].link)
           /\ task' = IF raises THEN [task EXCEPT ![t] = NoTask]
                      ELSE [task EXCEPT ![t].pc = "sleep"]
    /\ TaskFrame

\* a sleep after which the for loop takes the same entry again
TaskWakeSameEntry(t) ==
    /\ task[t].pc = "sleep"
    /\ task' = [task EXCEPT ![t].pc = "for"]
    /\ wire' = NoCall
    /\ report' = NoReport
    /\ TaskFrame

\* line 320: the sleep is over
TaskWake(t) ==
    /\ task[t].pc = "sleep"
    /\ task' = [task EXCEPT ![t].pc = "for", ![t].i = @ + 1]
    /\ wire' = NoCall
    /\ report' = NoReport
    /\ TaskFrame

TaskStep(t) == TaskWhile(t) \/ TaskFor(t) \/ TaskPublish(t) \/ TaskWake(t)

(***************************************************************************)
(* The message update logic of the client page (lines 542-555), run by     *)
(* every rerun of the script.                                              *)
(***************************************************************************)
\* lines 543-544: both getters return the list object itself; the poll holds
\* the link whose lists it was given, and how long they were then
PollGet ==
    /\ ui.pc = "idle"
    /\ mqtt_client # None /\ is_mqtt_connected
    /\ ui' = [pc |-> "poll_raw", link |-> mqtt_client,
              rawLen |-> Len(messages_received[mqtt_client]),
              jsonLen |-> Len(json_messages[mqtt_client])]
    /\ wire' = NoCall
    /\ report' = NoReport
    /\ UNCHANGED << pageVars, flatten, main, linkVars, coordVars, task, brokerSubs >>

\* get_received_messages / get_json_messages (lines 152-158), read through
\* what the poll holds
get_received_messages == messages_received[ui.link]

get_json_messages == json_messages[ui.link]

\* line 550: the frame's serial numbers are 1..n
Renumbered(rows) == [i \in 1..Len(rows) |-> [rows[i] EXCEPT !.Serial = i]]

\* lines 548-551
PollUpdateRaw ==
    /\ ui.pc = "poll_raw"
    /\ LET new_messages == get_received_messages
       IN  messages_df' =
              IF new_messages # << >>
                 /\ (Len(new_messages) # Len(messages_df) \/ messages_df = EmptyFrame)
              THEN Renumbered(new_messages)
              ELSE messages_df
    /\ ui' = [ui EXCEPT !.pc = "poll_json"]
    /\ wire' = NoCall
    /\ report' = NoReport
    /\ UNCHANGED << pageVars, flatten, main, linkVars, mqtt_client, is_mqtt_connected, subscribed_topics,
                    publish_thread_running, stop_publish_event, json_messages_df,
                    last_message_count, last_json_message_count,
                    auto_publish_messages, task, brokerSubs >>

\* lines 554-555
PollUpdateJson ==
    /\ ui.pc = "poll_json"
    /\ LET new_json_messages == get_json_messages
       IN  json_messages_df' =
              IF new_json_messages # << >>
                 /\ (Len(new_json_messages) # Len(json_messages_df)
                     \/ json_messages_df = EmptyFrame)
              THEN new_json_messages
              ELSE json_messages_df
    /\ ui' = UiIdle
    /\ wire' = NoCall
    /\ report' = NoReport
    /\ UNCHANGED << pageVars, flatten, main, linkVars, mqtt_client, is_mqtt_connected, subscribed_topics,
                    publish_thread_running, stop_publish_event, messages_df,
                    last_message_count, last_json_message_count,
                    auto_publish_messages, task, brokerSubs >>

(***************************************************************************)
(* The list of the periodic publisher and the "Clear Table" button of the  *)
(* parsed-messages page.                                                   *)
(***************************************************************************)
\* a row whose QoS is a number that is no QoS level (lines 339-342 take any
\* number)
BadQosMessages ==
    << [Topic |-> "test/message", Payload |-> "Message 3", QoS |-> 5, Retain |-> FALSE] >>

\* the lists a CSV file can hold: no row, or rows
CsvLists == { << >>, DefaultMessages, BadQosMessages }

\* load_periodic_messages_from_csv (lines 348-355), then the data editor of
\* line 442 that gives the list back
LoadPeriodicMessagesFromCsv(messages_list) ==
    /\ ui.pc = "idle"
    /\ auto_publish_messages' = messages_list
    /\ report' = IF messages_list = << >>
                 THEN Warned("The CSV file was processed, but no valid messages were found after parsing. Please check the CSV content and formatting.")
                 ELSE NoReport
    /\ wire' = NoCall
    /\ UNCHANGED << pageVars, flatten, main, linkVars, mqtt_client, is_mqtt_connected,
                    subscribed_topics, publish_thread_running, stop_publish_event,
                    dfVars, ui, task, brokerSubs >>

\* "Clear Table" (src/pages/2_Parsed_JSON_Messages.py, lines 133-143)
ClearTable ==
    /\ ui.pc = "idle"
    /\ json_messages_df' = EmptyFrame
    /\ last_json_message_count' = 0
    /\ json_messages' = IF mqtt_client # None
                        THEN [json_messages EXCEPT ![mqtt_client] = << >>]
                        ELSE json_messages
    /\ wire' = NoCall
    /\ report' = NoReport
    /\ UNCHANGED << pageVars, flatten, main, nLinks, is_connected, loop, session,
                    messages_received, callback, mqtt_client, is_mqtt_connected,
                    subscribed_topics, publish_thread_running, stop_publish_event,
                    messages_df, last_message_count, auto_publish_messages, ui,
                    task, brokerSubs >>

\* JSONMessageDB.insert_messages_batch (src/database.py, lines 54-74): one
\* INSERT per message, in order
insert_messages_batch(db, messages) == db \o messages

\* the top of the parsed-messages page, run on every rerun of the page
\* (src/pages/2_Parsed_JSON_Messages.py, lines 35-65): line 53 stores the
\* count before line 58 compares the count with the stored one
Page2Poll ==
    /\ ui.pc = "idle"
    /\ mqtt_client # None /\ is_mqtt_connected
    /\ LET latest_json_messages == json_messages[mqtt_client]
           current_message_count == Len(latest_json_messages)
           update == /\ latest_json_messages # << >>
                     /\ (current_message_count # last_json_message_count
                         \/ json_messages_df = EmptyFrame)
           stored == IF update THEN current_message_count
                     ELSE last_json_message_count
       IN  /\ json_messages_df' = IF update THEN latest_json_messages
                                  ELSE json_messages_df
           /\ last_json_message_count' = stored
           /\ json_db' =
                 IF update /\ auto_save_to_db /\ latest_json_messages # << >>
                    /\ current_message_count > stored
                 THEN insert_messages_batch(json_db,
                         SubSeq(latest_json_messages, stored + 1,
                                current_message_count))
                 ELSE json_db
    /\ wire' = NoCall
    /\ report' = NoReport
    /\ UNCHANGED << auto_save_to_db, flatten, main, linkVars, mqtt_client,
                    is_mqtt_connected, subscribed_topics, publish_thread_running,
                    stop_publish_event, messages_df, last_message_count,
                    auto_publish_messages, ui, task, brokerSubs >>

\* the "Auto-save to Database" checkbox (lines 86-92)
SetAutoSave(auto_save) ==
    /\ ui.pc = "idle"
    /\ auto_save # auto_save_to_db
    /\ auto_save_to_db' = auto_save
    /\ wire' = NoCall
    /\ report' = NoReport
    /\ UNCHANGED << json_db, flatten, main, linkVars, coordVars, ui, task, brokerSubs >>

(***************************************************************************)
(* load_periodic_messages_from_csv: the file, what pandas reads from it    *)
(* and the conversions of lines 339-346.                                   *)
(***************************************************************************)
\* rows of a file of the model
MaxRows == 2

ExpectedCols == {"Topic", "Payload", "QoS", "Retain"}

\* the texts of the cells of the columns QoS and Retain
QosCells == {"abc", "2", ""}

RetainCells == {"true", "1", ""}

CsvRow(qos, retain) == [Topic |-> "test/message", Payload |-> "Message",
                        QoS |-> qos, Retain |-> retain]

CsvFile(kind, columns, rows) == [kind |-> kind, columns |-> columns, rows |-> rows]

\* the file of the specification's example: four rows
ExampleCsv ==
    CsvFile("csv", ExpectedCols,
            << CsvRow("0", "true"), CsvRow("abc", "False"),
               CsvRow("2", "1"), CsvRow("1", "no") >>)

\* a file without content, a file that is no CSV, files that lack a column
BadCsvFiles ==
    { CsvFile("empty", {}, << >>), CsvFile("unparsable", {}, << >>) }
    \cup { CsvFile("csv", ExpectedCols \ {col}, << >>) : col \in ExpectedCols }

\* the files above, the example, and the files with all the columns and up
\* to MaxRows rows
CsvFiles ==
    BadCsvFiles \cup { ExampleCsv }
    \cup { CsvFile("csv", ExpectedCols, rows) :
              rows \in UNION { [1..n -> { CsvRow(qos, retain) :
                                             qos \in QosCells, retain \in RetainCells }]
                               : n \in 0..MaxRows } }

\* the values of a column pandas has read
IntValue(n) == [kind |-> "int", n |-> n, s |-> ""]

FloatValue(n) == [kind |-> "float", n |-> n, s |-> ""]

NaN == [kind |-> "nan", n |-> 0, s |-> ""]

StrValue(text) == [kind |-> "str", n |-> 0, s |-> text]

BoolValue(b) == [kind |-> "bool", n |-> IF b THEN 1 ELSE 0, s |-> ""]

IsIntText(text) == text \in {"0", "1", "2"}

IntOf(text) == CASE text = "0" -> 0 [] text = "1" -> 1 [] text = "2" -> 2 [] OTHER -> 0

IsBoolText(text) == text \in {"true", "True", "TRUE", "false", "False", "FALSE"}

IsTrueText(text) == text \in {"true", "True", "TRUE"}

\* pd.read_csv (line 326) gives a column one type: integers when every cell
\* is an integer, floats (NaN for an empty cell) when every cell is a number
\* or empty, booleans when every cell is a truth word, else the texts as
\* they are (NaN for an empty cell)
ReadCsvColumn(cells) ==
    IF cells # << >> /\ \A i \in 1..Len(cells) : IsIntText(cells[i])
    THEN [i \in 1..Len(cells) |-> IntValue(IntOf(cells[i]))]
    ELSE IF \A i \in 1..Len(cells) : IsIntText(cells[i]) \/ cells[i] = ""
    THEN [i \in 1..Len(cells) |->
             IF cells[i] = "" THEN NaN ELSE FloatValue(IntOf(cells[i]))]
    ELSE IF \A i \in 1..Len(cells) : IsBoolText(cells[i])
    THEN [i \in 1..Len(cells) |-> BoolValue(IsTrueText(cells[i]))]
    ELSE [i \in 1..Len(cells) |->
             IF cells[i] = "" THEN NaN ELSE StrValue(cells[i])]

\* pd.to_numeric(..., errors='coerce') (line 339)
ToNumeric(value) ==
    CASE value.kind = "str" ->
             IF IsIntText(value.s) THEN IntValue(IntOf(value.s)) ELSE NaN
      [] OTHER -> value

\* .fillna(0).astype(int) (line 342)
FillnaAsInt(value) == IF value.kind = "nan" THEN 0 ELSE value.n

\* .astype(str) (line 346)
AsTypeStr(value) ==
    CASE value.kind = "int"   -> ToString(value.n)
      [] value.kind = "float" -> ToString(value.n) \o ".0"
      [] value.kind = "nan"   -> "nan"
      [] value.kind = "bool"  -> IF value.n = 1 THEN "True" ELSE "False"
      [] OTHER                -> value.s

\* .str.lower() (line 346) on the texts of the model
Lower(text) ==
    CASE text \in {"True", "TRUE"}   -> "true"
      [] text \in {"False", "FALSE"} -> "false"
      [] OTHER                       -> text

\* line 346
RetainOf(value) == Lower(AsTypeStr(value)) \in {"true", "1"}

\* lines 336-348: the records of the processed frame, in row order
MessagesList(file) ==
    LET n      == Len(file.rows)
        qos    == ReadCsvColumn([i \in 1..n |-> file.rows[i].QoS])
        retain == ReadCsvColumn([i \in 1..n |-> file.rows[i].Retain])
    IN  [i \in 1..n |-> [Topic |-> file.rows[i].Topic,
                         Payload |-> file.rows[i].Payload,
                         QoS |-> FillnaAsInt(ToNumeric(qos[i])),
                         Retain |-> RetainOf(retain[i])]]

\* lines 330-333: the columns the file lacks
MissingCols(file) == ExpectedCols \ file.columns

\* a load that empties the list when it reports an error
LoadCsvFileClearingOnError(file) ==
    IF file.kind = "csv" /\ MissingCols(file) = {}
    THEN LoadPeriodicMessagesFromCsv(MessagesList(file))
    ELSE /\ ui.pc = "idle"
         /\ report' = Warned("Error: The uploaded CSV file is empty.")
         /\ auto_publish_messages' = << >>
         /\ wire' = NoCall
         /\ UNCHANGED << pageVars, flatten, main, linkVars, mqtt_client,
                         is_mqtt_connected, subscribed_topics, publish_thread_running,
                         stop_publish_event, dfVars, ui, task, brokerSubs >>

\* load_periodic_messages_from_csv (lines 323-365) on an uploaded file: the
\* three errors it reports, or the list of the rows
LoadCsvFile(file) ==
    IF file.kind = "csv" /\ MissingCols(file) = {}
    THEN LoadPeriodicMessagesFromCsv(MessagesList(file))
    ELSE /\ ui.pc = "idle"
         /\ report' = Warned(CASE file.kind = "empty" ->
                                     "Error: The uploaded CSV file is empty."
                               [] file.kind = "unparsable" ->
                                     "Error: Could not parse the CSV file. Please ensure it is a valid CSV format."
                               [] OTHER ->
                                     "Error: CSV is missing required columns: "
                                        \o (CHOOSE col \in MissingCols(file) : TRUE))
         /\ wire' = NoCall
         /\ UNCHANGED << pageVars, flatten, main, linkVars, coordVars, ui, task,
                         brokerSubs >>

(***************************************************************************)
(* The main script (src/MQTTClient.py): one paho client without a network  *)
(* thread, its callbacks run inside client.loop on the script thread.      *)
(***************************************************************************)
MainFrame == UNCHANGED << pageVars, flatten, linkVars, coordVars, ui, task, brokerSubs >>

\* "Connect to MQTT Broker" (lines 80-89): setup_mqtt_client, then
\* client.loop runs on_connect (lines 29-38) with the broker's result code
MainConnect(rc) ==
    /\ ~main.connected
    /\ main' = [main EXCEPT !.mqtt_client = TRUE,
                            !.connected = IF rc = 0 THEN TRUE ELSE @,
                            !.raised = FALSE]
    /\ wire' = NoCall
    /\ report' = NoReport
    /\ MainFrame

\* on_disconnect (lines 40-42), run by client.loop
MainOnDisconnect ==
    /\ main.mqtt_client
    /\ main.connected
    /\ main' = [main EXCEPT !.connected = FALSE, !.raised = FALSE]
    /\ wire' = NoCall
    /\ report' = NoReport
    /\ MainFrame

\* on_message (lines 44-53), run by client.loop (lines 87, 113): msg.payload.decode()
\* raises UnicodeDecodeError on bytes that are not UTF-8, before the append
MainOnMessage(topic, bytes) ==
    /\ main.mqtt_client
    /\ main.connected
    /\ Len(main.messages) < MaxMsgs
    /\ main' = IF bytes.utf8
               THEN [main EXCEPT !.messages =
                        Append(@, [Serial |-> Len(@) + 1, Timestamp |-> Len(@) + 1,
                                   Topic |-> topic, Payload |-> bytes.text]),
                                 !.raised = FALSE]
               ELSE [main EXCEPT !.raised = TRUE]
    /\ wire' = NoCall
    /\ report' = NoReport
    /\ MainFrame

(***************************************************************************)
(* The specifications.  The program is the interleaving of the UI thread,  *)
(* the network threads and the publisher threads; each specification takes *)
(* the handlers and threads that touch the state its claims are about.     *)
(***************************************************************************)
\* The network thread of a link: the acknowledgment of its connect, a drop
LinkNext ==
    \/ \E l \in Links, rc \in {0, 5} : OnConnect(l, rc)
    \/ \E l \in Links : BrokerDrop(l)

\* The connection handlers of the UI
ConnectionNext ==
    \/ \E outcome \in {"raise", "sent"} : ConnectMqttUi(outcome)
    \/ ConnectMqttUiReturn
    \/ DisconnectMqttUi

\* Connection lifecycle: the handlers of the UI that use the link, against
\* every behaviour of the broker
Next ==
    \/ ConnectionNext
    \/ LinkNext
    \/ \E topic \in Topics : SubscribeTopicUi(topic)
    \/ \E topic \in Topics : UnsubscribeTopicUi(topic)
    \/ PublishMessageUi(FormTopic)

Spec == Init /\ [][Next]_vars

\* The periodic publisher against the connection handlers, with a broker
\* that accepts every connection
PubNext ==
    \/ ConnectMqttUi("sent")
    \/ ConnectMqttUiReturn
    \/ DisconnectMqttUi
    \/ DisconnectMqttUiReturn
    \/ \E l \in Links : OnConnect(l, 0)
    \/ StartPeriodicPublisher
    \/ StopPeriodicPublisher
    \/ \E messages_list \in CsvLists : LoadPeriodicMessagesFromCsv(messages_list)
    \/ \E t \in Tasks : TaskWhile(t)
    \/ \E t \in Tasks : TaskFor(t)
    \/ \E t \in Tasks : TaskPublish(t)
    \/ \E t \in Tasks : TaskWake(t)

PubSpec == Init /\ [][PubNext]_vars

\* Threads the operating system schedules make progress: a publisher thread
\* takes its next step, a handler that sleeps wakes up.
FairPubSpec ==
    /\ PubSpec
    /\ \A t \in Tasks : WF_vars(TaskStep(t))
    /\ WF_vars(ConnectMqttUiReturn)
    /\ WF_vars(DisconnectMqttUiReturn)

\* The receive callback against the polls of the client page and the
\* connection handlers, with a broker that accepts every connection
LogNext ==
    \/ ConnectMqttUi("sent")
    \/ ConnectMqttUiReturn
    \/ DisconnectMqttUi
    \/ \E l \in Links : OnConnect(l, 0)
    \/ SubscribeTopicUi(FormTopic)
    \/ PollGet
    \/ PollUpdateRaw
    \/ PollUpdateJson
    \/ \E l \in Links, bytes \in Payloads : OnMessageRaw(l, FormTopic, bytes)
    \/ \E l \in Links : OnMessageJson(l)
    \/ ClearTable

LogSpec == Init /\ [][LogNext]_vars

\* The receive callback against the reruns of the parsed-messages page
SaveNext ==
    \/ ConnectMqttUi("sent")
    \/ ConnectMqttUiReturn
    \/ \E l \in Links : OnConnect(l, 0)
    \/ SubscribeTopicUi(FormTopic)
    \/ \E l \in Links, bytes \in Payloads : OnMessageRaw(l, FormTopic, bytes)
    \/ \E l \in Links : OnMessageJson(l)
    \/ Page2Poll
    \/ \E auto_save \in BOOLEAN : SetAutoSave(auto_save)
    \/ ClearTable

SaveSpec == Init /\ [][SaveNext]_vars

\* The commands of the UI that need a connection (stop_periodic_publisher
\* needs none), against a broker that accepts or refuses
CmdNext ==
    \/ ConnectionNext
    \/ DisconnectMqttUiReturn
    \/ \E l \in Links, rc \in {0, 5} : OnConnect(l, rc)
    \/ SubscribeTopicUi(FormTopic)
    \/ UnsubscribeTopicUi(FormTopic)
    \/ PublishMessageUi(FormTopic)
    \/ StartPeriodicPublisher
    \/ \E t \in Tasks : TaskStep(t)

CmdSpec == Init /\ [][CmdNext]_vars

\* The periodic publisher with the list the session starts with, against
\* the connection handlers and a broker that accepts every connection
TaskNext ==
    \/ ConnectMqttUi("sent")
    \/ ConnectMqttUiReturn
    \/ DisconnectMqttUi
    \/ DisconnectMqttUiReturn
    \/ \E l \in Links : OnConnect(l, 0)
    \/ StartPeriodicPublisher
    \/ StopPeriodicPublisher
    \/ \E t \in Tasks : TaskStep(t)

TaskSpec == Init /\ [][TaskNext]_vars

\* The uploads of CSV files for the list of the periodic publisher
CsvNext == \E file \in CsvFiles : LoadCsvFile(file)

CsvSpec == Init /\ [][CsvNext]_vars

\* The main script: its connect button and the callbacks of client.loop
MainNext ==
    \/ \E rc \in {0, 5} : MainConnect(rc)
    \/ MainOnDisconnect
    \/ \E topic \in Topics, bytes \in Payloads : MainOnMessage(topic, bytes)

MainSpec == Init /\ [][MainNext]_vars

(***************************************************************************)
(* _flatten_json as a function: the inputs are the JSON values of depth    *)
(* at most two over a few keys and scalars.                                *)
(***************************************************************************)
\* elements of a list
MaxListLen == 2

Keys == {"a", "a_0"}

Scalars == {Num(1), Null}

SeqsUpTo(S, n) == UNION {[1..m -> S] : m \in 0..n}

\* the dicts json.loads can return over the keys: no key twice, in any order
ObjectsOver(S) ==
    {Obj(es) : es \in {e \in SeqsUpTo({KV(key, x) : key \in Keys, x \in S},
                                      Cardinality(Keys)) :
                          \A i, j \in 1..Len(e) : i # j => e[i].k # e[j].k}}

ListsOver(S) == {Arr(xs) : xs \in SeqsUpTo(S, MaxListLen)}

JsonDepth1 == Scalars \cup ObjectsOver(Scalars) \cup ListsOver(Scalars)

JsonValues == JsonDepth1 \cup ObjectsOver(JsonDepth1) \cup ListsOver(JsonDepth1)

\* the two objects of the specification's examples
ExampleNested ==
    Obj(<< KV("a", Obj(<< KV("b", Num(1)) >>)), KV("c", Arr(<< Num(1), Num(2) >>)) >>)

ExampleListOfObjects ==
    Obj(<< KV("a", Arr(<< Obj(<< KV("x", Num(1)) >>), Obj(<< KV("x", Num(2)) >>) >>)) >>)

\* objects with an empty key, at the top and below it
ExampleEmptyKeys ==
    { Obj(<< KV("", Obj(<< KV("b", Num(1)) >>)) >>),
      Obj(<< KV("a", Obj(<< KV("", Num(1)) >>)) >>),
      Obj(<< KV("", Arr(<< Num(1), Obj(<< KV("", Num(2)) >>) >>)) >>) }

\* objects with a list inside a list
ExampleNestedLists ==
    { Obj(<< KV("a", Arr(<< Arr(<< Num(1) >>), Num(2) >>)) >>),
      Obj(<< KV("a", Arr(<< Arr(<< Obj(<< KV("x", Num(1)) >>) >>) >>)) >>) }

FlattenInputs == JsonValues \cup {ExampleNested, ExampleListOfObjects}
                            \cup ExampleEmptyKeys \cup ExampleNestedLists

\* The session never runs: one call of _flatten_json(json_obj) with the
\* default parent_key='' and sep='_'
FlattenInit ==
    /\ nLinks = 0
    /\ is_connected = [l \in Links |-> FALSE]
    /\ loop = [l \in Links |-> "none"]
    /\ session = [l \in Links |-> "none"]
    /\ messages_received = [l \in Links |-> << >>]
    /\ json_messages = [l \in Links |-> << >>]
    /\ callback = [l \in Links |-> Idle]
    /\ mqtt_client = None
    /\ is_mqtt_connected = FALSE
    /\ subscribed_topics = {}
    /\ publish_thread_running = FALSE
    /\ stop_publish_event = FALSE
    /\ messages_df = EmptyFrame
    /\ json_messages_df = EmptyFrame
    /\ last_message_count = 0
    /\ last_json_message_count = 0
    /\ auto_publish_messages = DefaultMessages
    /\ ui = UiIdle
    /\ task = [t \in Tasks |-> NoTask]
    /\ brokerSubs = [l \in Links |-> {}]
    /\ wire = NoCall
    /\ report = NoReport
    /\ main = NoMain
    /\ json_db = << >>
    /\ auto_save_to_db = TRUE
    /\ \E json_obj \in FlattenInputs :
          flatten = [pc |-> "call", json_obj |-> json_obj, result |-> << >>]

FlattenCall ==
    /\ flatten.pc = "call"
    /\ flatten' = [flatten EXCEPT !.pc = "done",
                                  !.result = FlattenJson(flatten.json_obj, "", "_")]
    /\ UNCHANGED << pageVars, linkVars, coordVars, ui, task, brokerSubs, wire, report, main >>

FlattenNext == FlattenCall

FlattenSpec == FlattenInit /\ [][FlattenNext]_vars

(***************************************************************************)
(* Properties.                                                             *)
(***************************************************************************)
IsPrefix(a, b) == Len(a) <= Len(b) /\ \A i \in 1..Len(a) : a[i] = b[i]

\* C1 (LogSpec): the raw log of every link holds the records of the messages
\* delivered to it in delivery order, numbered 1..N without gap or repeat:
\* record i has "Serial No." i, a delivery appends exactly one record and no
\* step removes or changes a record, whatever the polls of the UI do meanwhile.
C1_RawSerialsAreOneToN ==
    /\ [](\A l \in Links : \A i \in 1..Len(messages_received[l]) :
            /\ messages_received[l][i].Serial = i
            /\ \A j \in 1..Len(messages_received[l]) :
                  i < j => messages_received[l][i].Timestamp
                             < messages_received[l][j].Timestamp)
    /\ [][\A l \in Links :
            /\ IsPrefix(messages_received[l], messages_received'[l])
            /\ Len(messages_received'[l]) <= Len(messages_received[l]) + 1
            /\ (~callback[l].busy /\ callback'[l].busy)
                  => Len(messages_received'[l]) = Len(messages_received[l]) + 1]_vars

\* C1 witness: two messages were delivered to a link while a poll is in progress
C1_Witness ==
    \E l \in Links : Len(messages_received[l]) = 2 /\ ui.pc = "poll_json" /\ ui.link = l

AliveTasks == {t \in Tasks : Alive(t)}

\* C2 (PubSpec): at most one periodic publisher thread is alive at any time.
C2_AtMostOnePublisher == Cardinality(AliveTasks) <= 1

LiveLinks == {l \in Links : loop[l] = "running" \/ session[l] \in {"pending", "open"}}

\* C3 (Spec): at most one link has a running network loop or a broker session
\* that is open or being opened.
C3_AtMostOneLiveLink == Cardinality(LiveLinks) <= 1

\* C4 (FairPubSpec): a publisher thread alive while disconnect_mqtt_ui has set
\* the stop event and sleeps eventually terminates.
C4_DisconnectEndsPublisher ==
    \A t \in Tasks : [](Alive(t) /\ ui.pc = "disconnect_wait" => <>(~Alive(t)))

\* C5 (FairPubSpec): a publisher thread alive when stop_periodic_publisher
\* has set the stop event eventually terminates, whatever command follows.
\* (The stop event set with no handler in progress was set by
\* stop_periodic_publisher: disconnect_mqtt_ui clears it before it returns.)
C5_StopEndsPublisher ==
    \A t \in Tasks : [](Alive(t) /\ stop_publish_event /\ ui.pc = "idle" => <>(~Alive(t)))

IsJsonText(text) == text \in {PayloadObject.text, PayloadSerial.text, PayloadTopic.text}

JsonCount(log) == Cardinality({i \in 1..Len(log) : IsJsonText(log[i].Payload)})

\* C6 (LogSpec): what a poll was given by get_received_messages and
\* get_json_messages stays as it was when the poll got it (a later append of
\* the receive callback does not show through it), and every JSON message of
\* the raw log it was given has its record in the parsed log it was given.
C6_PollViewIsSnapshot ==
    ui.pc \in {"poll_raw", "poll_json"} =>
        /\ Len(get_received_messages) = ui.rawLen
        /\ Len(get_json_messages) = ui.jsonLen
        /\ JsonCount(get_received_messages) = Len(get_json_messages)

\* C7 (Spec): once the broker has dropped the session of a link, the link's
\* is_connected is false, and so is is_mqtt_connected when the link is the
\* coordinator's and no handler is in progress.
C7_DropClearsFlags ==
    \A l \in Links : session[l] = "dropped" =>
        /\ ~is_connected[l]
        /\ (mqtt_client = l /\ ui.pc = "idle") => ~is_mqtt_connected

\* C8 (Spec): is_connected of a link turns true only in the step that handles
\* an acknowledgment with result code 0; a link whose connect raised or was
\* refused has is_connected false, and once connect_mqtt_ui has returned for
\* it is_mqtt_connected is false too.
C8_ConnectedOnlyByAck ==
    /\ [][\A l \in Links : (~is_connected[l] /\ is_connected'[l])
              => (session[l] = "pending" /\ session'[l] = "open")]_vars
    /\ [](\A l \in 1..nLinks : session[l] \in {"none", "refused"} =>
              /\ ~is_connected[l]
              /\ (mqtt_client = l /\ ui.pc # "connect_wait") => ~is_mqtt_connected)

\* C8 witness: the coordinator's link was refused and connect_mqtt_ui returned
C8_Witness ==
    /\ mqtt_client # None
    /\ session[mqtt_client] = "refused"
    /\ ui.pc = "idle"

\* C9 (LogSpec): the first half of the receive callback appends exactly one
\* record to the raw log and leaves the parsed log; its second half leaves
\* the raw log and appends exactly one record to the parsed log when the
\* payload is JSON text, and leaves the parsed log when it is not.
C9_OneRawOneParsedIfJson ==
    [][\A l \in Links :
         /\ (~callback[l].busy /\ callback'[l].busy) =>
               /\ Len(messages_received'[l]) = Len(messages_received[l]) + 1
               /\ messages_received'[l][Len(messages_received'[l])].Payload
                     = callback'[l].payload
               /\ json_messages'[l] = json_messages[l]
         /\ (callback[l].busy /\ ~callback'[l].busy) =>
               /\ messages_received'[l] = messages_received[l]
               /\ IsPrefix(json_messages[l], json_messages'[l])
               /\ Len(json_messages'[l]) =
                     Len(json_messages[l])
                       + (IF IsJsonText(callback[l].payload) THEN 1 ELSE 0)]_vars

\* C9 witness: a link received one JSON payload and one payload that is not
C9_Witness ==
    \E l \in Links :
        /\ ~callback[l].busy
        /\ Len(messages_received[l]) = 2
        /\ Len(json_messages[l]) = 1

(***************************************************************************)
(* The flattening rule as the specification words it: walk the value with  *)
(* a path; an object recurses into each key with the key joined to the     *)
(* path, a list emits path_index for each element that is no object and    *)
(* recurses into the objects, a scalar emits path -> value.                *)
(***************************************************************************)
JoinPath(path, key, sep) == IF path = "" THEN key ELSE path \o sep \o key

RECURSIVE RuleWalk(_, _, _)
RECURSIVE RuleChildren(_, _, _, _)

RuleChildren(value, path, sep, i) ==
    IF i > Len(value.c) THEN << >>
    ELSE LET child == value.c[i].x
         IN  (IF value.t = "obj"
              THEN RuleWalk(child, JoinPath(path, value.c[i].k, sep), sep)
              ELSE IF child.t = "obj"
              THEN RuleWalk(child, path \o sep \o ToString(i - 1), sep)
              ELSE << KV(path \o sep \o ToString(i - 1), child) >>)
             \o RuleChildren(value, path, sep, i + 1)

RuleWalk(value, path, sep) ==
    IF value.t \in {"obj", "arr"} THEN RuleChildren(value, path, sep, 1)
    ELSE << KV(path, value) >>

RuleMap(value) == MapOf(DictOf(RuleWalk(value, "", "_")))

\* C10 as stated (FlattenSpec): for every JSON value, object, list or scalar
\* at the top level, _flatten_json returns the mapping of the rule.
C10_FlattenFollowsRule ==
    flatten.pc = "done" => MapOf(flatten.result) = RuleMap(flatten.json_obj)

\* C10 as amended (FlattenSpec): for every JSON object _flatten_json returns
\* the mapping of the rule, and for a list or a scalar at the top level it
\* returns the empty mapping; the two examples of the specification hold.
C10_FlattenFollowsRuleOnObjects ==
    flatten.pc = "done" =>
        /\ flatten.json_obj.t = "obj" =>
              MapOf(flatten.result) = RuleMap(flatten.json_obj)
        /\ flatten.json_obj.t # "obj" => flatten.result = << >>
        /\ flatten.json_obj = ExampleNested =>
              MapOf(flatten.result) =
                 ("a_b" :> Num(1)) @@ ("c_0" :> Num(1)) @@ ("c_1" :> Num(2))
        /\ flatten.json_obj = ExampleListOfObjects =>
              MapOf(flatten.result) = ("a_0_x" :> Num(1)) @@ ("a_1_x" :> Num(2))

\* C10 witness: an object was flattened and a list nested in a list came out
\* as the value of a key
C10_Witness ==
    /\ flatten.pc = "done"
    /\ flatten.json_obj.t = "obj"
    /\ \E i \in 1..Len(flatten.result) : flatten.result[i].x.t = "arr"

C12_RejectedPublishIsDistinguishable ==
    /\ []((report.returned # "" /\ wire = NoCall)
             => report.returned # PublishReturn(TRUE))
    /\ [][\A t \in Tasks : (TaskPublish(t) /\ ~is_connected[task[t].link])
             => (wire' = NoCall /\ UNCHANGED << logVars, is_connected >>)]_vars

\* C13 (CmdSpec): subscribe, unsubscribe, publish and start issued while
\* is_mqtt_connected is false make no call on the paho client, start no
\* thread, display a warning and leave the subscription set, the
\* publisher-running flag, the broker's filters and the logs as they were.
C13_CommandsRejectedWhenNotConnected ==
    [][(/\ ~is_mqtt_connected
        /\ \/ \E topic \in Topics : SubscribeTopicUi(topic)
           \/ \E topic \in Topics : UnsubscribeTopicUi(topic)
           \/ \E topic \in Topics : PublishMessageUi(topic)
           \/ StartPeriodicPublisher)
          => (/\ wire' = NoCall
              /\ report'.shown # ""
              /\ report'.returned = ""
              /\ UNCHANGED << subscribed_topics, publish_thread_running, task,
                              brokerSubs, logVars, dfVars >>)]_vars

\* C13 witness: start_periodic_publisher was rejected on a coordinator that is
\* not connected although its link has been acknowledged meanwhile
C13_Witness ==
    /\ report.shown = "Not connected to MQTT broker. Cannot start publisher."
    /\ mqtt_client # None
    /\ is_connected[mqtt_client]
    /\ ~is_mqtt_connected
    /\ \A t \in Tasks : ~Alive(t)

\* C14 (PubSpec): start_periodic_publisher with an empty list of entries
\* starts no thread and leaves the publisher-running flag as it was.
C14_StartRejectsEmptyList ==
    [][(StartPeriodicPublisher /\ auto_publish_messages = << >>)
          => (task' = task /\ publish_thread_running' = publish_thread_running)]_vars

\* C15 (Spec): when disconnect_mqtt_ui has called disconnect() on the
\* coordinator's link, the link's network loop is not running, its session
\* is neither open nor being opened and is_connected is false, whatever the
\* state of the link was.
C15_DisconnectStopsLink ==
    [][(DisconnectMqttUi /\ mqtt_client # None)
          => (/\ loop'[mqtt_client] # "running"
              /\ session'[mqtt_client] \notin {"pending", "open"}
              /\ ~is_connected'[mqtt_client])]_vars

\* C16 (Spec): disconnect() on a link whose is_connected is false changes
\* nothing of the link and makes no call on the paho client; on every link
\* disconnect() twice leaves what disconnect() once leaves, the second call
\* making no call on the paho client.
C16_DisconnectIdempotent ==
    \A l \in Links :
        /\ ~is_connected[l] =>
              /\ Disconnect(LinkState, l) = LinkState
              /\ DisconnectCalls(LinkState, l, Ui) = {}
        /\ Disconnect(Disconnect(LinkState, l), l) = Disconnect(LinkState, l)
        /\ DisconnectCalls(Disconnect(LinkState, l), l, Ui) = {}

\* C16 witness: disconnect_mqtt_ui ran on a link that was disconnected
\* before, with a network loop the first call had stopped
C16_Witness ==
    /\ mqtt_client # None
    /\ session[mqtt_client] = "closed"
    /\ loop[mqtt_client] = "stopped"
    /\ ~is_connected[mqtt_client]
    /\ ui.pc = "idle"
    /\ wire = NoCall

\* C17 (LogSpec): record i of the parsed log of every link has "Serial No." i,
\* whatever the payloads hold.
C17_ParsedSerialsAreOneToM ==
    \A l \in Links : \A i \in 1..Len(json_messages[l]) :
        MapOf(json_messages[l][i])["Serial No."] = Num(i)

\* C18 (LogSpec): the record the receive callback appends to the parsed log
\* holds the topic and the receive time of the message and the value
\* json.loads returned, in "Topic", "Timestamp" and "JSON Data".
C18_ParsedRecordHoldsMessage ==
    [][\A l \in Links :
         (OnMessageJson(l) /\ JsonLoads(callback[l].payload).ok) =>
            LET rec == MapOf(json_messages'[l][Len(json_messages'[l])])
            IN  /\ rec["Topic"] = Str(callback[l].topic)
                /\ rec["Timestamp"] = Num(callback[l].timestamp)
                /\ rec["JSON Data"] = JsonLoads(callback[l].payload).value]_vars

\* C19 (MainSpec): a message whose payload is not UTF-8 is not dropped and
\* raises no error.  The receive callback of the client page appends one
\* record with the marker and the next serial number to the raw log and
\* nothing to the parsed log; the receive callback of the main script appends
\* one record to its log and does not raise.
C19_UndecodableIsLogged ==
    /\ [][\A l \in Links, bytes \in Payloads :
            (OnMessageRaw(l, FormTopic, bytes) /\ ~bytes.utf8) =>
               /\ Len(messages_received'[l]) = Len(messages_received[l]) + 1
               /\ messages_received'[l][Len(messages_received'[l])].Serial
                     = Len(messages_received[l]) + 1
               /\ ~JsonLoads(messages_received'[l][Len(messages_received'[l])].Payload).ok]_vars
    /\ [][\A topic \in Topics, bytes \in Payloads :
            (MainOnMessage(topic, bytes) /\ ~bytes.utf8) =>
               /\ Len(main'.messages) = Len(main.messages) + 1
               /\ ~main'.raised]_vars

\* C20 (LogSpec): "Clear Table" on a coordinator that has a link empties the
\* raw log and the parsed log of the link.
C20_ClearEmptiesBothLogs ==
    [][(ClearTable /\ mqtt_client # None)
          => (/\ messages_received'[mqtt_client] = << >>
              /\ json_messages'[mqtt_client] = << >>)]_vars

Pending(t) ==
    LET k == Len(task[t].messages)
    IN  CASE task[t].pc = "while"   -> 1
          [] task[t].pc = "for"     -> IF task[t].i > k THEN 1 ELSE task[t].i
          [] task[t].pc = "publish" -> task[t].i
          [] task[t].pc = "sleep"   -> (task[t].i % k) + 1
          [] OTHER                  -> 0

\* C22 (TaskSpec): while the stop event is not set, a publisher thread
\* started with a list of k entries starts with entry 1 as the next; each
\* call of publish it makes is for the next entry, whole (topic, payload,
\* QoS and retain flag), after which the next is the one that follows in the
\* list, entry 1 after entry k; no other step changes which entry is next.
C22_PublishesInOrderCyclically ==
    [][\A t \in Tasks :
         LET k == Len(task[t].messages)
         IN  /\ (~Alive(t) /\ Alive(t)') => Pending(t)' = 1
             /\ (Alive(t) /\ k > 0 /\ ~stop_publish_event /\ ~stop_publish_event') =>
                   IF TaskPublish(t)
                   THEN /\ report'.returned # ""
                        /\ wire' \subseteq {Call("publish", task[t].link, t,
                                                 task[t].messages[Pending(t)])}
                        /\ Alive(t)'
                        /\ Pending(t)' = (Pending(t) % k) + 1
                   ELSE Alive(t)' => Pending(t)' = Pending(t)]_vars

\* C22 witness: a thread has just published the second entry of its list,
\* with QoS 1 and the retain flag set
C22_Witness ==
    \E t \in Tasks :
        /\ task[t].pc = "sleep"
        /\ task[t].i = 2
        /\ ~stop_publish_event
        /\ wire = {Call("publish", task[t].link, t, DefaultMessages[2])}

\* the list the rule of the specification gives for a file: one entry per
\* row in row order, QoS the integer of the cell or 0, Retain true exactly
\* for a cell that is "true" or "1" when lower-cased
RuleEntries(file) ==
    [i \in 1..Len(file.rows) |->
        [Topic |-> file.rows[i].Topic,
         Payload |-> file.rows[i].Payload,
         QoS |-> IF IsIntText(file.rows[i].QoS) THEN IntOf(file.rows[i].QoS) ELSE 0,
         Retain |-> Lower(file.rows[i].Retain) \in {"true", "1"}]]

\* C23 (CsvSpec): a load of a file with the four columns leaves the list of
\* the rule in auto_publish_messages; the file of the example gives QoS
\* 0, 0, 2, 1 and Retain true, false, true, false.
C23_LoadFollowsRule ==
    [][\A file \in CsvFiles :
         (LoadCsvFile(file) /\ file.kind = "csv" /\ MissingCols(file) = {}) =>
            /\ auto_publish_messages' = RuleEntries(file)
            /\ file = ExampleCsv =>
                  /\ [i \in 1..4 |-> auto_publish_messages'[i].QoS] = << 0, 0, 2, 1 >>
                  /\ [i \in 1..4 |-> auto_publish_messages'[i].Retain]
                        = << TRUE, FALSE, TRUE, FALSE >>]_vars

\* C27 (CsvSpec): a load of a file that lacks one of the four columns, that
\* has no content or that is no CSV displays an error and leaves
\* auto_publish_messages as it was.
C27_BadFileLeavesList ==
    [][\A file \in BadCsvFiles :
         LoadCsvFile(file) =>
            /\ auto_publish_messages' = auto_publish_messages
            /\ report'.shown \in
                  { "Error: The uploaded CSV file is empty.",
                    "Error: Could not parse the CSV file. Please ensure it is a valid CSV format." }
                  \cup { "Error: CSV is missing required columns: " \o col :
                            col \in ExpectedCols }]_vars

\* C27 witness: the four entries of an earlier load are still the list after
\* the load of a file without content
C27_Witness ==
    /\ report.shown = "Error: The uploaded CSV file is empty."
    /\ auto_publish_messages = MessagesList(ExampleCsv)

\* C24 (SaveSpec): a rerun of the parsed-messages page with auto-save on
\* appends to the store, once each, the records of the parsed log beyond the
\* count the page had stored, and no other rerun stores them again.
C24_PollSavesNewRecordsOnce ==
    [][(Page2Poll /\ auto_save_to_db) =>
          json_db' = json_db \o SubSeq(json_messages[mqtt_client],
                                       last_json_message_count + 1,
                                       Len(json_messages[mqtt_client]))]_vars

\* C25 (TaskSpec): stop_periodic_publisher called while no publisher is
\* marked running completes, and leaves the stop event, the running flag,
\* every link, the logs and the threads as they were; it makes no call on a
\* paho client.
C25_StopWhenNotRunningIsNoOp ==
    [][(StopPeriodicPublisher /\ ~publish_thread_running) =>
          /\ UNCHANGED << stop_publish_event, publish_thread_running, linkVars,
                          mqtt_client, is_mqtt_connected, dfVars, task >>
          /\ wire' = NoCall]_vars

\* C25 witness: stop_periodic_publisher is callable with no publisher marked
\* running, the event clear and a thread of an earlier start still alive
C25_Witness ==
    /\ ui.pc = "idle"
    /\ ~publish_thread_running
    /\ ~stop_publish_event
    /\ \E t \in Tasks : Alive(t)
    /\ ENABLED StopPeriodicPublisher

\* C26 (TaskSpec): while the stop event is set and stays set, no publisher
\* thread comes to the call of publish: the only publish left is that of a
\* thread that had passed the test of line 317; a thread at the for loop goes
\* to the while test without publishing the entries that remain, and a
\* thread at the while test ends.
C26_NoPublishEnteredAfterStop ==
    [][\A t \in Tasks :
         (stop_publish_event /\ stop_publish_event') =>
            /\ task'[t].pc = "publish" => task[t].pc = "publish"
            /\ (task[t].pc = "for" /\ task'[t] # task[t]) => task'[t].pc = "while"
            /\ (task[t].pc = "while" /\ task'[t] # task[t]) => ~Alive(t)'
            /\ (\E c \in wire' : c.op = "publish" /\ c.by = t) =>
                  task[t].pc = "publish"]_vars

\* C26 witness: with the event set, a thread that had passed the test has
\* made its one publish and sleeps
C26_Witness ==
    /\ stop_publish_event
    /\ \E t \in Tasks :
          /\ task[t].pc = "sleep"
          /\ \E c \in wire : c.op = "publish" /\ c.by = t

\* C30 (TaskSpec): a publisher thread keeps the link it was started with;
\* every publish a thread sends to the broker goes through that link, which
\* is connected then, and a publish of the thread on a link that is not
\* connected sends nothing.
C30_TaskPublishesThroughItsLink ==
    [][/\ \A t \in Tasks :
            /\ (Alive(t) /\ Alive(t)') => task'[t].link = task[t].link
            /\ (TaskPublish(t) /\ ~is_connected[task[t].link]) => wire' = NoCall
       /\ \A c \in wire' :
            (c.op = "publish" /\ c.by \in Tasks) =>
               /\ c.link = task[c.by].link
               /\ is_connected[c.link]]_vars

\* C30 witness: the session holds a new connected link, and a thread started
\* on the previous link has just called publish on it: nothing was sent
C30_Witness ==
    \E t \in Tasks :
        /\ task[t].pc = "sleep"
        /\ task[t].link # mqtt_client
        /\ is_connected[mqtt_client]
        /\ ~is_connected[task[t].link]
        /\ wire = NoCall
        /\ report.shown = "Not connected to MQTT broker. Cannot publish."

\* C28 (Spec): whenever no command of the UI is in progress and the session
\* holds a link, is_mqtt_connected equals the is_connected flag of that link.
C28_CoordinatorFlagEqualsLinkFlag ==
    (ui.pc = "idle" /\ mqtt_client # None) =>
        is_mqtt_connected = is_connected[mqtt_client]

\* C29 (PubSpec): whenever no command of the UI is in progress and
\* publish_thread_running is true, a publisher thread is alive and the stop
\* event is not set.
C29_RunningFlagMeansLiveThread ==
    (ui.pc = "idle" /\ publish_thread_running) =>
        /\ \E t \in Tasks : Alive(t)
        /\ ~stop_publish_event

====
